---------------------------- MODULE Spec2Model ----------------------------
(* A model of the case-sensitive Contentful search script (index.js).      *)
(*                                                                         *)
(* Strings are sequences of one-character strings, so that indexOf, slice  *)
(* and the snippet are computed character by character, as the script      *)
(* computes them.  The element "..." stands for the single character       *)
(* U+2026 (horizontal ellipsis) of the source.                             *)
EXTENDS Integers, Sequences, FiniteSets, TLC

VARIABLES
  argv,       \* process.argv[2], process.argv[3]: [term, locale]
  env,        \* process.env: [SPACE_ID, CPA_TOKEN, ENVIRONMENT_ID, DEBUG_MODE]
  term,       \* const term (index.js:8)
  locale,     \* const locale (index.js:9)
  client,     \* TRUE once createClient has been called (index.js:18)
  pc,         \* where the script is
  skip,       \* searchContentful: let skip
  total,      \* searchContentful: let total
  rows,       \* searchContentful: let rows
  pageLen,    \* items.length of the page being processed
  entryIdx,   \* number of entries of that page the for-of loop has taken
  entry,      \* the entry taken last
  last,       \* what processing that entry did: fields examined, rows pushed
  requests,   \* the getEntries calls issued so far, with their arguments
  inFlight,   \* number of getEntries calls awaiting their response
  constTotal, \* TRUE while every response so far reported the same total
  cause,      \* why searchContentful rejected: "none", "transport", "entry"
  stdout,     \* the summary main printed: "table", "no matches" or "none"
  stderr,     \* what was printed to the error stream
  exitCode,   \* the exit status of the process, -1 while it runs
  fetched,    \* number of entries the API has returned so far, over all pages
  probe       \* harness of the pure functions: input and output

vars == <<argv, env, term, locale, client, pc, skip, total, rows, pageLen,
          entryIdx, entry, last, requests, inFlight, constTotal, cause,
          stdout, stderr, exitCode, fetched, probe>>

driverVars == <<argv, env, term, locale, client, pc, skip, total, rows,
                pageLen, entryIdx, entry, last, requests, inFlight,
                constTotal, cause, stdout, stderr, exitCode, fetched>>

-----------------------------------------------------------------------------
(* Bounds of the model and constants of the program.                       *)

MaxEntries == 2

MaxFields == 2

MaxPages == 2

MaxPad == 31

pageSize == 1000

SnippetContext == 30

includeDepth == 1

Min(a, b) == IF a < b THEN a ELSE b

Max(a, b) == IF a > b THEN a ELSE b

-----------------------------------------------------------------------------
(* JavaScript values.  Every value is a record of one shape:               *)
(*   t        typeof / Array.isArray: "string", "number", "null",          *)
(*            "undefined", "array", "object"                               *)
(*   s        the characters of a string; for an object, the plain text    *)
(*            the rich-text renderer produces for it                       *)
(*   nodeType, content   whether the property is present and truthy        *)
(*   throws   whether the rich-text renderer throws on the object          *)
(*   m        the other own properties of an object: <<key, value>> pairs  *)

Str(s) == [t |-> "string", s |-> s, nodeType |-> FALSE, content |-> FALSE,
           throws |-> FALSE, m |-> <<>>]

Other(t) == [t |-> t, s |-> <<>>, nodeType |-> FALSE, content |-> FALSE,
             throws |-> FALSE, m |-> <<>>]

Obj(nt, ct, text, thr, m) == [t |-> "object", s |-> text, nodeType |-> nt,
                              content |-> ct, throws |-> thr, m |-> m]

Rich(text) == Obj(TRUE, TRUE, text, FALSE, <<>>)

BadRich == Obj(TRUE, TRUE, <<>>, TRUE, <<>>)

LocaleMap(m) == Obj(FALSE, FALSE, <<>>, FALSE, m)

\* `key in obj` for a key that is neither "nodeType" nor "content"
HasKey(obj, key) == \E i \in 1..Len(obj.m) : obj.m[i][1] = key

\* obj[key], for a key that HasKey
Get(obj, key) == obj.m[CHOOSE i \in 1..Len(obj.m) : obj.m[i][1] = key][2]

\* what a function returning string | null returns
Absent == [absent |-> TRUE, s |-> <<>>, threw |-> FALSE]

Present(s) == [absent |-> FALSE, s |-> s, threw |-> FALSE]

\* the truthiness test `if (value)` on a string | null
Truthy(v) == ~v.absent /\ v.s # <<>>

\* a call that threw instead of returning
Thrown == [absent |-> TRUE, s |-> <<>>, threw |-> TRUE]

-----------------------------------------------------------------------------
(* String primitives of JavaScript, on sequences of characters.            *)

\* String.prototype.indexOf: the first 0-based offset of t in s, or -1
IndexOfFold(s, t) ==
  LET Fold(c) == IF c = "F" THEN "f" ELSE c
      low(u) == [k \in 1..Len(u) |-> Fold(u[k])]
      hits == {i \in 0..(Len(s) - Len(t)) :
                 low(SubSeq(s, i + 1, i + Len(t))) = low(t)}
  IN  IF hits = {} THEN -1 ELSE CHOOSE i \in hits : \A j \in hits : i <= j

IndexOf(s, t) ==
  LET hits == {i \in 0..(Len(s) - Len(t)) : SubSeq(s, i + 1, i + Len(t)) = t}
  IN  IF hits = {} THEN -1 ELSE CHOOSE i \in hits : \A j \in hits : i <= j

\* String.prototype.slice(a, b) for a, b >= 0
Slice(s, a, b) == SubSeq(s, Min(a, Len(s)) + 1, Min(b, Len(s)))

-----------------------------------------------------------------------------
(* The field normalizer.                                                   *)

TypeofObject(v) == v.t \in {"object", "array", "null"}

IsArray(v) == v.t = "array"

\* a value is truthy unless it is null, undefined or the empty string
\* (numbers of the model are non-zero)
TruthyValue(v) == v.t \notin {"null", "undefined"} /\ (v.t = "string" => v.s # <<>>)

\* documentToPlainTextString (external renderer): the text, or it throws
documentToPlainTextString(doc) == IF doc.throws THEN Thrown ELSE Present(doc.s)

\* try { return documentToPlainTextString(v) } catch (error) { return null }
RenderNoCatch(doc) == documentToPlainTextString(doc)

RenderOrNull(doc) ==
  LET r == documentToPlainTextString(doc) IN IF r.threw THEN Absent ELSE r

ExtractFirstLocale(fieldValue, fieldName, loc) ==
  IF fieldValue.t = "string" THEN Present(fieldValue.s)
  ELSE IF /\ TruthyValue(fieldValue) /\ TypeofObject(fieldValue)
          /\ ~IsArray(fieldValue) /\ fieldValue.nodeType /\ fieldValue.content
       THEN RenderOrNull(fieldValue)
  ELSE IF /\ TruthyValue(fieldValue) /\ TypeofObject(fieldValue)
          /\ ~IsArray(fieldValue) /\ Len(fieldValue.m) > 0
       THEN LET value == fieldValue.m[1][2]
            IN  IF /\ TruthyValue(value) /\ TypeofObject(value)
                   /\ value.nodeType /\ value.content
                THEN RenderOrNull(value)
                ELSE IF value.t = "string" THEN Present(value.s) ELSE Absent
  ELSE Absent

extractStringContent(fieldValue, fieldName, loc) ==
  \* Case 1: direct string
  IF fieldValue.t = "string" THEN Present(fieldValue.s)
  \* Case 2: rich text (non-localized)
  ELSE IF /\ TruthyValue(fieldValue) /\ TypeofObject(fieldValue)
          /\ ~IsArray(fieldValue) /\ fieldValue.nodeType /\ fieldValue.content
       THEN RenderOrNull(fieldValue)
  \* Case 3: localized field
  ELSE IF /\ TruthyValue(fieldValue) /\ TypeofObject(fieldValue)
          /\ ~IsArray(fieldValue) /\ HasKey(fieldValue, loc)
       THEN LET value == Get(fieldValue, loc)
            IN  \* Case 3a: localized rich text
                IF /\ TruthyValue(value) /\ TypeofObject(value)
                   /\ value.nodeType /\ value.content
                THEN RenderOrNull(value)
                \* Case 3b: localized string
                ELSE IF value.t = "string" THEN Present(value.s) ELSE Absent
  ELSE Absent

-----------------------------------------------------------------------------
(* The snippet.                                                            *)

Ellipsis == "..."

makeSnippetOffByOne(txt, i) ==
  LET pre  == Slice(txt, Max(0, i - SnippetContext), i)
      post == Slice(txt, i + Len(term), i + Len(term) + SnippetContext)
  IN  (IF i >= SnippetContext THEN <<Ellipsis>> ELSE <<>>)
        \o pre \o <<"[">> \o term \o <<"]">> \o post
        \o (IF i + Len(term) + SnippetContext < Len(txt) THEN <<Ellipsis>> ELSE <<>>)

makeSnippet(txt, i) ==
  LET pre  == Slice(txt, Max(0, i - SnippetContext), i)
      post == Slice(txt, i + Len(term), i + Len(term) + SnippetContext)
  IN  (IF i > SnippetContext THEN <<Ellipsis>> ELSE <<>>)
        \o pre \o <<"[">> \o term \o <<"]">> \o post
        \o (IF i + Len(term) + SnippetContext < Len(txt) THEN <<Ellipsis>> ELSE <<>>)

-----------------------------------------------------------------------------
(* The inputs of a run: the command line, the environment, and what the    *)
(* content API returns.                                                    *)

TermFo == <<"F", "o">>

Locales == {"en-US", "de-DE"}

\* process.argv[2] and process.argv[3]; <<>> and "" stand for a missing argument
ArgTerms == {<<>>, TermFo}

ArgLocales == {"", "de-DE"}

\* the totals the API may report: around every multiple of the page size
Totals == {0, 1} \cup {k * pageSize + d : k \in 1..(MaxPages - 1), d \in {0, 1}}
            \cup {MaxPages * pageSize}

FieldNames == <<"title", "body", "summary", "footer">>

\* the field values the API returns in the runs of the driver
DriverValues ==
  { Str(<<"a", "F", "o">>),
    Str(<<"f", "o">>),
    LocaleMap(<< <<"en-US", Rich(<<"F", "o", "b">>)>> >>) }

FieldLists ==
  UNION {[1..n -> DriverValues] : n \in 0..MaxFields}

\* an entry: sys (with sys.id and sys.contentType) and fields, either of which
\* a malformed entry lacks
MkEntry(id, sysOk, hasFields, values) ==
  [id |-> id, sysOk |-> sysOk, contentType |-> "article", hasFields |-> hasFields,
   fields |-> [k \in 1..Len(values) |-> <<FieldNames[k], values[k]>>]]

Entries(id) ==
  {MkEntry(id, TRUE, TRUE, v) : v \in FieldLists}
    \cup {MkEntry(id, FALSE, TRUE, v) : v \in {w \in FieldLists : Len(w) <= 1}}
    \cup {MkEntry(id, TRUE, FALSE, <<>>)}

NoEntry == MkEntry(0, TRUE, TRUE, <<>>)

NoLast == [examined |-> 0, pushed |-> 0, threw |-> FALSE]

NoProbe == [fn |-> "none", value |-> Other("undefined"), txt |-> <<>>, i |-> 0,
            out |-> Absent, done |-> FALSE]

DEBUG_MODE == env.DEBUG_MODE

-----------------------------------------------------------------------------
(* The search driver.                                                      *)

entryLink(id) ==
  <<"https://app.contentful.com/spaces/", env.SPACE_ID, "/environments/",
    env.ENVIRONMENT_ID, "/entries/", id>>

\* processStringValue: [rows, matched, threw]
processStringValue(e, fieldName, value, rws) ==
  LET idx == IndexOf(value, term)
  IN  IF idx # -1
      THEN IF ~e.sysOk
           THEN [rows |-> rws, matched |-> FALSE, threw |-> TRUE]
           ELSE [rows |-> Append(rws, [id |-> e.id,
                                       contentType |-> e.contentType,
                                       fieldName |-> fieldName,
                                       locale |-> locale,
                                       link |-> entryLink(e.id),
                                       snippet |-> makeSnippet(value, idx)]),
                 matched |-> TRUE, threw |-> FALSE]
      ELSE [rows |-> rws, matched |-> FALSE, threw |-> FALSE]

\* the loop over Object.entries(entry.fields), from field k on:
\* [rows, examined, threw]
RECURSIVE ScanFieldsNoBreak(_, _, _)
ScanFieldsNoBreak(e, k, rws) ==
  IF k > Len(e.fields)
  THEN [rows |-> rws, examined |-> k - 1, threw |-> FALSE]
  ELSE LET value == extractStringContent(e.fields[k][2], e.fields[k][1], locale)
       IN  IF value.threw
           THEN [rows |-> rws, examined |-> k, threw |-> TRUE]
           ELSE IF Truthy(value)
           THEN LET p == processStringValue(e, e.fields[k][1], value.s, rws)
                IN  IF p.threw
                    THEN [rows |-> rws, examined |-> k, threw |-> TRUE]
                    ELSE ScanFieldsNoBreak(e, k + 1, p.rows)
           ELSE ScanFieldsNoBreak(e, k + 1, rws)

RECURSIVE ScanFields(_, _, _)
ScanFields(e, k, rws) ==
  IF k > Len(e.fields)
  THEN [rows |-> rws, examined |-> k - 1, threw |-> FALSE]
  ELSE LET value == extractStringContent(e.fields[k][2], e.fields[k][1], locale)
       IN  IF value.threw
           THEN [rows |-> rws, examined |-> k, threw |-> TRUE]
           ELSE IF Truthy(value)
           THEN LET p == processStringValue(e, e.fields[k][1], value.s, rws)
                IN  IF p.threw
                    THEN [rows |-> rws, examined |-> k, threw |-> TRUE]
                    ELSE IF p.matched
                    THEN [rows |-> p.rows, examined |-> k, threw |-> FALSE]
                    ELSE ScanFields(e, k + 1, p.rows)
           ELSE ScanFields(e, k + 1, rws)

\* the body of `for (const entry of items)` with DEBUG_MODE being dbg:
\* [rows, examined, threw]
ProcessOneWith(e, rws, dbg) ==
  IF dbg /\ ~e.sysOk
  THEN [rows |-> rws, examined |-> 0, threw |-> TRUE]
  ELSE IF ~e.hasFields
  THEN [rows |-> rws, examined |-> 0, threw |-> TRUE]
  ELSE ScanFields(e, 1, rws)

\* the body of `for (const entry of items)`: [rows, examined, threw]
ProcessOne(e, rws) == ProcessOneWith(e, rws, DEBUG_MODE)

\* `while (skip < total)`
LoopAgainInclusive(s, t) == s <= t

LoopAgain(s, t) == s < t

\* what main prints when searchContentful resolved / rejected:
\* [stdout, stderr, exitCode]
MainCatchPrintsTable(results, why) ==
  [stdout |-> IF Len(results) > 0 THEN "table" ELSE "none", stderr |-> why,
   exitCode |-> 0]

MainCatch(results, why) ==
  [stdout |-> "none", stderr |-> why, exitCode |-> 0]

MainThen(results) ==
  [stdout |-> IF Len(results) > 0 THEN "table" ELSE "no matches",
   stderr |-> "none", exitCode |-> 0]

Init ==
  /\ argv \in [term : ArgTerms, locale : ArgLocales]
  /\ env \in [SPACE_ID : {"", "space1"}, CPA_TOKEN : {"", "token1"},
              ENVIRONMENT_ID : {"master"}, DEBUG_MODE : BOOLEAN]
  /\ term = <<>>
  /\ locale = ""
  /\ client = FALSE
  /\ pc = "start"
  /\ skip = 0
  /\ total = 0
  /\ rows = <<>>
  /\ pageLen = 0
  /\ entryIdx = 0
  /\ entry = NoEntry
  /\ last = NoLast
  /\ requests = <<>>
  /\ inFlight = 0
  /\ constTotal = TRUE
  /\ cause = "none"
  /\ stdout = "none"
  /\ stderr = "none"
  /\ exitCode = -1
  /\ fetched = 0
  /\ probe = NoProbe

\* the checks of the command line and the environment at the top level:
\* the error thrown, or "none"
ConfigErrorSpaceOnly(a, e) ==
  IF a.term = <<>> THEN "usage"
  ELSE IF e.SPACE_ID = "" THEN "credentials"
  ELSE "none"

ConfigError(a, e) ==
  IF a.term = <<>> THEN "usage"
  ELSE IF e.SPACE_ID = "" \/ e.CPA_TOKEN = "" THEN "credentials"
  ELSE "none"

\* the top level of the script, down to the call of the async main function
Startup ==
  /\ pc = "start"
  /\ term' = argv.term
  /\ locale' = IF argv.locale = "" THEN "en-US" ELSE argv.locale
  /\ IF ConfigError(argv, env) # "none"
     THEN /\ pc' = "crashed" /\ stderr' = ConfigError(argv, env)
          /\ exitCode' = 1
          /\ client' = FALSE
     ELSE /\ pc' = "request" /\ client' = TRUE
          /\ UNCHANGED <<stderr, exitCode>>
  /\ UNCHANGED <<argv, env, skip, total, rows, pageLen, entryIdx, entry, last,
                 requests, inFlight, constTotal, cause, stdout, fetched, probe>>

\* the request for this page and, without awaiting it, for the next one
IssueRequestTwice ==
  /\ pc = "request"
  /\ requests' = requests \o
       << [query |-> term, limit |-> pageSize, skip |-> skip,
           include |-> includeDepth],
          [query |-> term, limit |-> pageSize, skip |-> skip + pageSize,
           include |-> includeDepth] >>
  /\ inFlight' = inFlight + 2
  /\ pc' = "awaiting"
  /\ UNCHANGED <<argv, env, term, locale, client, skip, total, rows, pageLen,
                 entryIdx, entry, last, constTotal, cause, stdout, stderr,
                 exitCode, fetched, probe>>

\* client.getEntries({query: term, limit: pageSize, skip, include: 1})
IssueRequest ==
  /\ pc = "request"
  /\ requests' = Append(requests, [query |-> term, limit |-> pageSize,
                                   skip |-> skip, include |-> includeDepth])
  /\ inFlight' = inFlight + 1
  /\ pc' = "awaiting"
  /\ UNCHANGED <<argv, env, term, locale, client, skip, total, rows, pageLen,
                 entryIdx, entry, last, constTotal, cause, stdout, stderr,
                 exitCode, fetched, probe>>

\* the await resumes with {items, total: t}; total = t
ReceiveResponse ==
  /\ pc = "awaiting"
  /\ \E t \in Totals :
       \E n \in 0..Min(MaxEntries - fetched, Min(pageSize, Max(0, t - skip))) :
         /\ total' = t
         /\ pageLen' = n
         /\ fetched' = fetched + n
         /\ constTotal' = (Len(requests) = 1 \/ (constTotal /\ t = total))
  /\ entryIdx' = 0
  /\ inFlight' = inFlight - 1
  /\ pc' = "entries"
  /\ UNCHANGED <<argv, env, term, locale, client, skip, rows, entry, last,
                 requests, cause, stdout, stderr, exitCode, probe>>

\* the await throws: searchContentful rejects
RequestFails ==
  /\ pc = "awaiting"
  /\ inFlight' = inFlight - 1
  /\ cause' = "transport"
  /\ pc' = "rejected"
  /\ UNCHANGED <<argv, env, term, locale, client, skip, total, rows, pageLen,
                 entryIdx, entry, last, requests, constTotal, stdout, stderr,
                 exitCode, fetched, probe>>

\* one iteration of `for (const entry of items)`
ProcessEntry ==
  /\ pc = "entries"
  /\ entryIdx < pageLen
  /\ \E e \in Entries(skip + entryIdx + 1) :
       LET r == ProcessOne(e, rows)
       IN  /\ entry' = e
           /\ rows' = r.rows
           /\ last' = [examined |-> r.examined,
                       pushed |-> Len(r.rows) - Len(rows), threw |-> r.threw]
           /\ IF r.threw
              THEN pc' = "rejected" /\ cause' = "entry"
              ELSE pc' = "entryDone" /\ cause' = cause
  /\ entryIdx' = entryIdx + 1
  /\ UNCHANGED <<argv, env, term, locale, client, skip, total, pageLen,
                 requests, inFlight, constTotal, stdout, stderr, exitCode,
                 fetched, probe>>

\* the for-of loop goes on to its next iteration: entry goes out of scope
NextEntry ==
  /\ pc = "entryDone"
  /\ pc' = "entries"
  /\ entry' = NoEntry
  /\ last' = NoLast
  /\ UNCHANGED <<argv, env, term, locale, client, skip, total, rows, pageLen,
                 entryIdx, requests, inFlight, constTotal, cause, stdout,
                 stderr, exitCode, fetched, probe>>

\* skip += pageSize; while (skip < total)
EndPage ==
  /\ pc = "entries"
  /\ entryIdx = pageLen
  /\ skip' = skip + pageSize
  /\ pc' = IF LoopAgain(skip + pageSize, total) THEN "request" ELSE "returned"
  /\ UNCHANGED <<argv, env, term, locale, client, total, rows, pageLen,
                 entryIdx, entry, last, requests, inFlight, constTotal, cause,
                 stdout, stderr, exitCode, fetched, probe>>

\* main: searchContentful resolved with rows
Report ==
  /\ pc = "returned"
  /\ LET o == MainThen(rows)
     IN  stdout' = o.stdout /\ stderr' = o.stderr /\ exitCode' = o.exitCode
  /\ pc' = "exited"
  /\ UNCHANGED <<argv, env, term, locale, client, skip, total, rows, pageLen,
                 entryIdx, entry, last, requests, inFlight, constTotal, cause,
                 fetched, probe>>

\* main: searchContentful rejected, the catch clause
ReportError ==
  /\ pc = "rejected"
  /\ LET o == MainCatch(rows, cause)
     IN  stdout' = o.stdout /\ stderr' = o.stderr /\ exitCode' = o.exitCode
  /\ pc' = "exited"
  /\ UNCHANGED <<argv, env, term, locale, client, skip, total, rows, pageLen,
                 entryIdx, entry, last, requests, inFlight, constTotal, cause,
                 fetched, probe>>

Next ==
  \/ Startup
  \/ IssueRequest
  \/ ReceiveResponse
  \/ RequestFails
  \/ ProcessEntry
  \/ NextEntry
  \/ EndPage
  \/ Report
  \/ ReportError

Spec == Init /\ [][Next]_vars

\* the event loop runs every continuation that is ready, and every page
\* request is answered (with a page or with a failure)
LiveSpec == Init /\ [][Next]_vars /\ WF_vars(Next)

-----------------------------------------------------------------------------
(* The debug variant of the driver (src/unnamed/part_002): its entry loop. *)
(* Its rows are {id, fieldName, link, snippet}; every failure of an entry  *)
(* that lacks sys or fields is caught and the entry is passed over.        *)

\* processStringValue of the variant: the rows after the call
processStringValue002(e, fieldName, value, rws) ==
  LET idx == IndexOf(value, term)
  IN  IF idx # -1
      THEN Append(rws, [id |-> e.id, fieldName |-> fieldName,
                        link |-> entryLink(e.id),
                        snippet |-> makeSnippet(value, idx)])
      ELSE rws

\* for (const [fieldName, fieldValue] of Object.entries(e.fields)), from the
\* k-th field on: the rows after the loop
RECURSIVE ScanFields002(_, _, _)
ScanFields002(e, k, rws) ==
  IF k > Len(e.fields)
  THEN rws
  ELSE LET fieldName == e.fields[k][1]
           fieldValue == e.fields[k][2]
           \* try { processStringValue(e, fieldName, plainText, rows) }
           \* catch (error) { ... }
           rendered(doc) ==
             LET plainText == documentToPlainTextString(doc)
             IN  IF plainText.threw THEN rws
                 ELSE processStringValue002(e, fieldName, plainText.s, rws)
           \* if (rows.length && rows.at(-1).id === e.sys.id) break;
           guard(r) ==
             IF Len(r) > 0 /\ r[Len(r)].id = e.id
             THEN r
             ELSE ScanFields002(e, k + 1, r)
       IN  \* Case 1: direct string, then `continue`
           IF fieldValue.t = "string"
           THEN ScanFields002(e, k + 1,
                  processStringValue002(e, fieldName, fieldValue.s, rws))
           ELSE IF /\ TruthyValue(fieldValue) /\ TypeofObject(fieldValue)
                   /\ ~IsArray(fieldValue)
           THEN \* rich text, then `continue`
                IF fieldValue.nodeType /\ fieldValue.content
                THEN ScanFields002(e, k + 1, rendered(fieldValue))
                ELSE IF HasKey(fieldValue, locale)
                THEN LET value == Get(fieldValue, locale)
                     IN  \* localized rich text, then `continue`
                         IF /\ TruthyValue(value) /\ TypeofObject(value)
                            /\ value.nodeType /\ value.content
                         THEN ScanFields002(e, k + 1, rendered(value))
                         \* localized string: push and `break` on a match
                         ELSE IF value.t = "string"
                         THEN LET idx == IndexOf(value.s, term)
                              IN  IF idx # -1
                                  THEN Append(rws,
                                         [id |-> e.id, fieldName |-> fieldName,
                                          link |-> entryLink(e.id),
                                          snippet |-> makeSnippet(value.s, idx)])
                                  ELSE guard(rws)
                         ELSE guard(rws)
                ELSE guard(rws)
           ELSE guard(rws)

\* the body of `for (const e of items)`: the try block that reads e.sys and
\* e.fields, `continue` in its catch, then the field loop
ProcessOne002(e, rws) ==
  IF ~e.sysOk \/ ~e.hasFields THEN rws ELSE ScanFields002(e, 1, rws)

-----------------------------------------------------------------------------
(* The pure functions on their own, over wider inputs than the pages of    *)
(* the driver carry.                                                       *)

ProbeStrings == {<<>>, <<"F", "o">>, <<"f", "o">>, <<"a", "F", "o", "b">>}

\* values that are not locale maps
ProbeLeaves ==
  {Str(x) : x \in ProbeStrings}
    \cup {Other(t) : t \in {"number", "null", "undefined", "array"}}
    \cup {Obj(TRUE, TRUE, x, thr, <<>>) : x \in {<<>>, <<"F", "o">>}, thr \in BOOLEAN}
    \cup {Obj(nt, ct, <<>>, FALSE, <<>>) : nt \in BOOLEAN, ct \in {FALSE}}
    \cup {Obj(FALSE, TRUE, <<>>, FALSE, <<>>)}

\* objects keyed by locale, and rich-text documents that also carry such keys
ProbeMaps ==
  {LocaleMap(<< <<l, v>> >>) : l \in Locales, v \in ProbeLeaves}
    \cup {LocaleMap(<< <<"en-US", v>>, <<"de-DE", w>> >>) :
            v \in ProbeLeaves, w \in ProbeLeaves}
    \cup {Obj(TRUE, TRUE, <<"f", "o">>, thr, << <<"en-US", Str(<<"F", "o">>)>> >>) :
            thr \in BOOLEAN}

\* the locale map { "en-US": "Hallo" }
HalloMap == LocaleMap(<< <<"en-US", Str(<<"H", "a", "l", "l", "o">>)>> >>)

ProbeValues == ProbeLeaves \cup ProbeMaps \cup {HalloMap}

\* entries whose fields include rich text the renderer throws on
ProbeFieldValues ==
  { BadRich,
    LocaleMap(<< <<"en-US", BadRich>> >>),
    Rich(<<"F", "o">>),
    LocaleMap(<< <<"de-DE", Rich(<<"F", "o">>)>> >>),
    Str(<<"a", "F", "o">>),
    Str(<<"f", "o">>),
    LocaleMap(<< <<"en-US", Str(<<"F", "o", "b">>)>> >>),
    HalloMap }

ProbeEntries ==
  {MkEntry(1, TRUE, TRUE, v) :
     v \in UNION {[1..n -> ProbeFieldValues] : n \in 0..MaxFields}}

Pad(c, n) == [k \in 1..n |-> c]

\* texts in which the term first occurs at offset a, followed by b or more
\* characters
ProbeTexts ==
  {Pad("x", a) \o TermFo \o Pad(c, b) \o tail :
     a \in 0..MaxPad, b \in 0..MaxPad, c \in {"y", "o"}, tail \in {<<>>, TermFo}}

PureInit ==
  /\ argv = [term |-> TermFo, locale |-> ""]
  /\ env = [SPACE_ID |-> "space1", CPA_TOKEN |-> "token1",
            ENVIRONMENT_ID |-> "master", DEBUG_MODE |-> FALSE]
  /\ term = TermFo
  /\ locale \in Locales
  /\ client = TRUE
  /\ pc = "probe"
  /\ skip = 0
  /\ total = 0
  /\ rows = <<>>
  /\ pageLen = 0
  /\ entryIdx = 0
  /\ last = NoLast
  /\ requests = <<>>
  /\ inFlight = 0
  /\ constTotal = TRUE
  /\ cause = "none"
  /\ stdout = "none"
  /\ stderr = "none"
  /\ exitCode = -1
  /\ fetched = 0
  /\ \/ /\ entry = NoEntry
        /\ \E v \in ProbeValues :
             probe = [NoProbe EXCEPT !.fn = "extractStringContent", !.value = v]
     \/ /\ entry = NoEntry
        /\ locale = "en-US"
        /\ \E x \in ProbeTexts :
             probe = [NoProbe EXCEPT !.fn = "makeSnippet", !.txt = x,
                                     !.i = IndexOf(x, TermFo)]
     \/ /\ entry \in ProbeEntries
        /\ probe = [NoProbe EXCEPT !.fn = "ProcessOne"]
     \/ /\ entry \in ProbeEntries
        /\ probe = [NoProbe EXCEPT !.fn = "part_002"]

\* const value = extractStringContent(fieldValue, fieldName, locale)
ApplyExtract ==
  /\ probe.fn = "extractStringContent"
  /\ ~probe.done
  /\ probe' = [probe EXCEPT !.out = extractStringContent(probe.value, "title", locale),
                            !.done = TRUE]
  /\ UNCHANGED driverVars

\* snippet: makeSnippet(value, idx)
ApplySnippet ==
  /\ probe.fn = "makeSnippet"
  /\ ~probe.done
  /\ probe' = [probe EXCEPT !.out = Present(makeSnippet(probe.txt, probe.i)),
                            !.done = TRUE]
  /\ UNCHANGED driverVars

\* the body of the for-of loop on one entry
ApplyProcessOne ==
  /\ probe.fn = "ProcessOne"
  /\ ~probe.done
  /\ LET r == ProcessOne(entry, rows)
     IN  /\ rows' = r.rows
         /\ last' = [examined |-> r.examined,
                     pushed |-> Len(r.rows) - Len(rows), threw |-> r.threw]
  /\ probe' = [probe EXCEPT !.done = TRUE]
  /\ UNCHANGED <<argv, env, term, locale, client, pc, skip, total, pageLen,
                 entryIdx, entry, requests, inFlight, constTotal, cause,
                 stdout, stderr, exitCode, fetched>>

\* the body of the for-of loop of the debug variant on one entry
ApplyProcessOne002 ==
  /\ probe.fn = "part_002"
  /\ ~probe.done
  /\ LET r == ProcessOne002(entry, rows)
     IN  /\ rows' = r
         /\ last' = [examined |-> 0, pushed |-> Len(r) - Len(rows),
                     threw |-> FALSE]
  /\ probe' = [probe EXCEPT !.done = TRUE]
  /\ UNCHANGED <<argv, env, term, locale, client, pc, skip, total, pageLen,
                 entryIdx, entry, requests, inFlight, constTotal, cause,
                 stdout, stderr, exitCode, fetched>>

PureNext ==
  \/ ApplyExtract
  \/ ApplySnippet
  \/ ApplyProcessOne
  \/ ApplyProcessOne002

PureSpec == PureInit /\ [][PureNext]_vars

-----------------------------------------------------------------------------
(* Properties.                                                             *)

\* t occurs in s, character for character
Contains(s, t) ==
  \E i \in 0..(Len(s) - Len(t)) : \A k \in 1..Len(t) : s[i + k] = t[k]

\* field k of entry e normalizes to a string that contains the term
FieldMatches(e, k) ==
  LET v == extractStringContent(e.fields[k][2], e.fields[k][1], locale)
  IN  ~v.absent /\ Contains(v.s, term)

AnyFieldMatches(e) == \E k \in 1..Len(e.fields) : FieldMatches(e, k)

\* k is the first field of e, in the entry's order, that matches
IsFirstMatch(e, k) ==
  /\ k \in 1..Len(e.fields)
  /\ FieldMatches(e, k)
  /\ \A j \in 1..(k - 1) : ~FieldMatches(e, j)

HasRecord(e) == \E j \in 1..Len(rows) : rows[j].id = e.id

\* C1: an entry whose examination completed has a match record if and only if
\* one of its fields normalizes to a string that contains the term exactly,
\* character for character; a field that holds the term only in another
\* letter case gives no record.
C1_ExactMatch ==
  pc = "entryDone" => (HasRecord(entry) <=> AnyFieldMatches(entry))

\* C1 witness: an entry whose only field holds the term in lower case has
\* been examined and has no record.
C1_Witness ==
  /\ pc = "entryDone"
  /\ Len(entry.fields) = 1
  /\ entry.fields[1][2] = Str(<<"f", "o">>)
  /\ ~HasRecord(entry)

\* C2: processing one entry pushes no row or one row, and no two rows of the
\* result belong to the same entry.
C2_AtMostOneRecord ==
  /\ last.pushed \in {0, 1}
  /\ \A i, j \in 1..Len(rows) : rows[i].id = rows[j].id => i = j

\* C2 witness: an entry with two matching fields has been processed and
\* exactly one row was pushed for it.
C2_Witness ==
  /\ pc = "entryDone"
  /\ Len(entry.fields) >= 2
  /\ FieldMatches(entry, 1)
  /\ FieldMatches(entry, 2)
  /\ last.pushed = 1

\* C3: when an entry matches, the record names the first matching field in
\* the entry's field order, and the fields after it were not normalized.
C3_FirstFieldWins ==
  (pc = "entryDone" /\ last.pushed >= 1) =>
     \E k \in 1..Len(entry.fields) :
        /\ IsFirstMatch(entry, k)
        /\ rows[Len(rows)].fieldName = entry.fields[k][1]
        /\ rows[Len(rows)].id = entry.id
        /\ last.examined = k

\* C3 witness: the first field matched, a later field matches too, and only
\* the first was examined.
C3_Witness ==
  /\ pc = "entryDone"
  /\ Len(entry.fields) >= 2
  /\ FieldMatches(entry, 1)
  /\ FieldMatches(entry, 2)
  /\ last.examined = 1
  /\ rows[Len(rows)].fieldName = "title"

CeilDiv(a, b) == (a + b - 1) \div b

\* C4: every request has limit 1000 and skip 0, 1000, 2000, ... in order; when
\* the loop has ended and every response reported the same total, exactly
\* max(1, ceil(total / 1000)) requests were issued, and they cover the total.
C4_Pagination ==
  /\ \A i \in 1..Len(requests) :
        /\ requests[i].skip = (i - 1) * pageSize
        /\ requests[i].limit = pageSize
  /\ (pc = "returned" /\ constTotal) =>
        /\ Len(requests) = Max(1, CeilDiv(total, pageSize))
        /\ Len(requests) * pageSize >= total

\* C4 witness: the loop ended after two requests with a constant total of
\* 1001.
C4_Witness ==
  /\ pc = "returned"
  /\ constTotal
  /\ total = pageSize + 1
  /\ Len(requests) = 2

\* C5: with every page request answered the run ends; the loop is left only
\* with skip >= total and repeated only with skip < total, for the total
\* reported last; a total of 0 from the first response on gives one request
\* and an empty result.
C5_Termination ==
  /\ <>(pc \in {"exited", "crashed"})
  /\ [](pc = "returned" => skip >= total)
  /\ []((pc = "request" /\ skip > 0) => skip < total)
  /\ []((pc = "returned" /\ constTotal /\ total = 0) =>
          (Len(requests) = 1 /\ rows = <<>>))

\* C5 witness: the loop was repeated once and then left, and the run ended.
C5_Witness ==
  /\ pc = "exited"
  /\ cause = "none"
  /\ Len(requests) = 2
  /\ skip >= total

\* C9: a failure while processing one entry leaves the run going: the entry
\* is skipped and the loop takes the next one.
C9_EntryFailureSkipped == last.threw => pc = "entryDone"

\* C10: once a page request has failed, no request is in flight, the failed
\* request stays the last one issued, no match summary is printed, and the
\* run ends reporting that error alone.
C10_TransportFatal ==
  cause = "transport" =>
     /\ pc \in {"rejected", "exited"}
     /\ inFlight = 0
     /\ Len(requests) = (skip \div pageSize) + 1
     /\ stdout = "none"
     /\ (pc = "exited" => stderr = "transport")

\* C10 witness: the run ended on a failed request of a later page with
\* matches of an earlier page accumulated, and printed no table.
C10_Witness ==
  /\ pc = "exited"
  /\ cause = "transport"
  /\ Len(rows) > 0
  /\ Len(requests) = 2
  /\ stdout = "none"

\* C6: the snippet is the min(i, 30) characters before the match, the term
\* between "[" and "]", and the up to 30 characters after the match, with a
\* leading ellipsis iff i > 30 and a trailing one iff more than 30 characters
\* follow the match.
C6_Snippet ==
  (probe.fn = "makeSnippet" /\ probe.done) =>
     LET txt   == probe.txt
         i     == probe.i
         out   == probe.out.s
         n     == Min(i, 30)
         after == Len(txt) - (i + Len(term))
         m     == Min(after, 30)
         lead  == IF i > 30 THEN 1 ELSE 0
         trail == IF after > 30 THEN 1 ELSE 0
     IN  /\ Len(out) = lead + n + 1 + Len(term) + 1 + m + trail
         /\ lead = 1 => out[1] = Ellipsis
         /\ \A k \in 1..n : out[lead + k] = txt[i - n + k]
         /\ out[lead + n + 1] = "["
         /\ \A k \in 1..Len(term) : out[lead + n + 1 + k] = term[k]
         /\ out[lead + n + Len(term) + 2] = "]"
         /\ \A k \in 1..m : out[lead + n + Len(term) + 2 + k] = txt[i + Len(term) + k]
         /\ trail = 1 => out[Len(out)] = Ellipsis

\* C6 witness: a match at offset 30 exactly, with 31 characters after it: no
\* leading ellipsis, a trailing one.
C6_Witness ==
  /\ probe.fn = "makeSnippet"
  /\ probe.done
  /\ probe.i = 30
  /\ Len(probe.txt) = 30 + Len(term) + 31
  /\ probe.out.s[1] = "x"
  /\ probe.out.s[Len(probe.out.s)] = Ellipsis

IsRichDoc(v) == v.t = "object" /\ v.nodeType /\ v.content

IsPlainObject(v) == v.t = "object" /\ ~IsRichDoc(v)

\* C7: a plain string is returned unchanged; a locale map gives the plain
\* string under the requested locale, and null when the locale is no key or
\* its value is neither a string nor a rich-text document; arrays, numbers,
\* null and undefined give null.
C7_ResolutionOrder ==
  (probe.fn = "extractStringContent" /\ probe.done) =>
     LET v == probe.value
         out == probe.out
     IN  /\ v.t = "string" => out = Present(v.s)
         /\ (IsPlainObject(v) /\ HasKey(v, locale) /\ Get(v, locale).t = "string")
              => out = Present(Get(v, locale).s)
         /\ (IsPlainObject(v) /\ ~HasKey(v, locale)) => out = Absent
         /\ (IsPlainObject(v) /\ HasKey(v, locale) /\ Get(v, locale).t # "string"
               /\ ~IsRichDoc(Get(v, locale))) => out = Absent
         /\ v.t \in {"array", "number", "null", "undefined"} => out = Absent

\* C7 witness: a locale map that holds a string under another locale only
\* was normalized to null.
C7_Witness ==
  /\ probe.fn = "extractStringContent"
  /\ probe.done
  /\ IsPlainObject(probe.value)
  /\ Len(probe.value.m) = 1
  /\ probe.value.m[1][2] = Str(<<"F", "o">>)
  /\ ~HasKey(probe.value, locale)
  /\ probe.out = Absent

\* the rich-text document a value holds: itself, or the one under the locale
HoldsRichDoc(v, loc) ==
  \/ IsRichDoc(v)
  \/ IsPlainObject(v) /\ HasKey(v, loc) /\ IsRichDoc(Get(v, loc))

RichDocOf(v, loc) == IF IsRichDoc(v) THEN v ELSE Get(v, loc)

RendererThrows(v, loc) == HoldsRichDoc(v, loc) /\ RichDocOf(v, loc).throws

\* C8: a rich-text document, bare or under the requested locale, normalizes
\* to the renderer's text, or to null when the renderer throws; no call of
\* the normalizer throws; an entry with such a field is processed to the end:
\* its fields are examined up to the first match, which gives its record.
C8_RenderFailure ==
  /\ (probe.fn = "extractStringContent" /\ probe.done) =>
        /\ ~probe.out.threw
        /\ HoldsRichDoc(probe.value, locale) =>
              probe.out = IF RichDocOf(probe.value, locale).throws
                          THEN Absent
                          ELSE Present(RichDocOf(probe.value, locale).s)
  /\ (probe.fn = "ProcessOne" /\ probe.done) =>
        /\ ~last.threw
        /\ last.pushed = (IF AnyFieldMatches(entry) THEN 1 ELSE 0)
        /\ AnyFieldMatches(entry) => IsFirstMatch(entry, last.examined)
        /\ ~AnyFieldMatches(entry) => last.examined = Len(entry.fields)

\* C8 witness: the renderer throws on the first field of an entry, the second
\* field was examined and gave the entry's record.
C8_Witness ==
  /\ probe.fn = "ProcessOne"
  /\ probe.done
  /\ Len(entry.fields) = 2
  /\ RendererThrows(entry.fields[1][2], locale)
  /\ last.examined = 2
  /\ last.pushed = 1
  /\ rows[1].fieldName = "body"

\* C11: a run that ended on a fatal error (missing term, missing credential,
\* failed request) printed it to the error stream and has a non-zero exit
\* status; a run with exit status 0 printed the match table or the
\* no-matches message.
C11_FatalExitsNonZero ==
  pc \in {"exited", "crashed"} =>
     /\ (pc = "crashed" \/ cause = "transport") =>
           (stderr # "none" /\ exitCode # 0)
     /\ exitCode = 0 => stdout \in {"table", "no matches"}

\* C12: in a run whose term is missing or empty, or whose space identifier
\* or access token is absent, the API client is never created and no page
\* request is ever issued: the script stops at its top level.
C12_ConfigBeforeIO ==
  (argv.term = <<>> \/ env.SPACE_ID = "" \/ env.CPA_TOKEN = "") =>
     /\ ~client
     /\ requests = <<>>
     /\ inFlight = 0
     /\ pc \in {"start", "crashed"}

\* C12 witness: a run with a term and a space identifier but no access token
\* has stopped with the credentials error, without a client or a request.
C12_Witness ==
  /\ pc = "crashed"
  /\ argv.term # <<>>
  /\ env.SPACE_ID # ""
  /\ env.CPA_TOKEN = ""
  /\ stderr = "credentials"
  /\ ~client
  /\ requests = <<>>

\* C13 as the specification states it: with locale "de-DE", an entry that has
\* a field { "en-US": "Hallo" } produces no match, whatever its other fields
\* hold.
C13_NoMatchForEntry ==
  (probe.fn = "ProcessOne" /\ probe.done /\ locale = "de-DE"
     /\ \E k \in 1..Len(entry.fields) : entry.fields[k][2] = HalloMap)
    => (last.pushed = 0 /\ rows = <<>>)

\* C13 amended: with locale "de-DE" the field { "en-US": "Hallo" } normalizes
\* to null and never gives the record; the entry has a record exactly when
\* another of its fields matches.
C13_AbsentFieldOnly ==
  /\ (probe.fn = "extractStringContent" /\ probe.done /\ locale = "de-DE"
        /\ probe.value = HalloMap) => probe.out = Absent
  /\ (probe.fn = "ProcessOne" /\ probe.done /\ locale = "de-DE") =>
        \A k \in 1..Len(entry.fields) :
           entry.fields[k][2] = HalloMap =>
              /\ \A j \in 1..Len(rows) : rows[j].fieldName # entry.fields[k][1]
              /\ last.pushed = 1 <=>
                    \E j \in 1..Len(entry.fields) :
                       j # k /\ FieldMatches(entry, j)
              /\ last.pushed \in {0, 1}

\* C13 witness: with locale "de-DE", an entry whose first field is
\* { "en-US": "Hallo" } and whose second field holds the term has a record,
\* for the second field.
C13_Witness ==
  /\ probe.fn = "ProcessOne"
  /\ probe.done
  /\ locale = "de-DE"
  /\ Len(entry.fields) = 2
  /\ entry.fields[1][2] = HalloMap
  /\ entry.fields[2][2] = Str(<<"a", "F", "o">>)
  /\ last.pushed = 1
  /\ rows[1].fieldName = "body"

\* C14: the debug flag does not alter what a run does with an entry: the
\* entry just processed threw, or pushed its row, exactly as it does on the
\* same entry in the run with the flag the other way, so that the two runs
\* go on to the same requests and return the same records.
C14_DebugSameOutcome ==
  (pc = "entryDone" \/ cause = "entry") =>
     LET o == ProcessOneWith(entry, <<>>, ~DEBUG_MODE)
     IN  /\ last.threw = o.threw
         /\ last.pushed = Len(o.rows)
         /\ last.pushed = 1 => rows[Len(rows)] = o.rows[1]

\* C15: in the debug variant (src/unnamed/part_002) the entry loop pushes at
\* most one row per entry, whatever the shapes of the entry's fields.
C15_AtMostOneRow002 ==
  (probe.fn = "part_002" /\ probe.done) => last.pushed <= 1

\* C16: execution is strictly sequential: at most one page request is in
\* flight, one is in flight exactly while the driver is suspended on it, and
\* a request is issued only when every response before it has arrived and
\* every entry of the page before it has been examined; the k-th request is
\* the one for the k-th page.
C16_Sequential ==
  /\ inFlight \in {0, 1}
  /\ inFlight = 1 <=> pc = "awaiting"
  /\ pc \in {"request", "awaiting"} => entryIdx = pageLen
  /\ pc = "request" => Len(requests) = skip \div pageSize
  /\ pc = "awaiting" =>
       /\ Len(requests) = skip \div pageSize + 1
       /\ requests[Len(requests)].skip = skip

\* the second request is in flight, after a first page whose entries have all
\* been examined
C16_Witness ==
  /\ pc = "awaiting"
  /\ inFlight = 1
  /\ Len(requests) = 2
  /\ pageLen >= 1
  /\ entryIdx = pageLen
  /\ fetched = pageLen

=============================================================================
